---------------------------- MODULE Spec2Model ----------------------------
(***************************************************************************)
(* A model of the ASIC gazette scraper (src/mainGazzette2021M.py): the     *)
(* table resolver, the per-row / per-cell extraction, the schema registry  *)
(* (all_columns_found), header derivation and row normalisation.           *)
(*                                                                         *)
(* Python str values are TLA+ strings; the str methods the code uses       *)
(* (startswith, endswith, in, replace, split, join, strip, slicing,        *)
(* comparison) are operators over Len / SubSeq / \o, computed character by *)
(* character.  Selenium elements are records describing what the DOM       *)
(* answers to the calls the code makes on them.                            *)
(***************************************************************************)
EXTENDS Integers, Sequences, FiniteSets, TLC

VARIABLES
    page,               \* driver.find_elements(By.TAG_NAME, "table"): all <table> elements
    sections,           \* expanded_sections: the year_text of each accordion button
    pc,                 \* position of the running procedure
    i,                  \* scrape_data: index of the section being processed
    year,               \* partition key of the running resolution / extraction
    table,              \* table returned by _find_correct_table_for_year (or None)
    row_idx,            \* _extract_table_data: index of the next row
    data_rows,          \* _extract_table_data: rows extracted from the current table
    all_data,           \* self.all_data
    all_columns_found,  \* self.all_columns_found
    headers,            \* save_to_csv: headers
    normalized_data,    \* save_to_csv: normalized_data
    arg,                \* arguments of the function under test (function-level specifications)
    ret                 \* its return value

vars == <<page, sections, pc, i, year, table, row_idx, data_rows, all_data,
          all_columns_found, headers, normalized_data, arg, ret>>

-----------------------------------------------------------------------------
(* Python str primitives *)

\* U+00A0 NO-BREAK SPACE is written as the one-character string "~".
NBSP == "~"

\* s[k] (1-based), as a one-character string
Char(s, k) == SubSeq(s, k, k)

\* s[k:] with k 0-based
StrFrom(s, k) == SubSeq(s, k + 1, Len(s))

\* the characters str.split() / str.strip() treat as whitespace
IsSpace(c) == c \in {" ", "\t", "\n", "\r", NBSP}

startswith(s, p) == Len(p) <= Len(s) /\ SubSeq(s, 1, Len(p)) = p

endswith(s, p) == Len(p) <= Len(s) /\ SubSeq(s, Len(s) - Len(p) + 1, Len(s)) = p

\* p in s
StrIn(p, s) == \E k \in 1..(Len(s) - Len(p) + 1) : SubSeq(s, k, k + Len(p) - 1) = p

\* s.replace(old, new): left to right, non-overlapping (old is not empty)
RECURSIVE replace(_, _, _)
replace(s, old, new) ==
    IF Len(s) < Len(old) THEN s
    ELSE IF startswith(s, old) THEN new \o replace(StrFrom(s, Len(old)), old, new)
    ELSE Char(s, 1) \o replace(StrFrom(s, 1), old, new)

\* length of the run of non-whitespace characters s starts with
RECURSIVE WordLen(_)
WordLen(s) ==
    IF s = "" \/ IsSpace(Char(s, 1)) THEN 0 ELSE 1 + WordLen(StrFrom(s, 1))

\* s.split(): the maximal runs of non-whitespace characters
RECURSIVE split(_)
split(s) ==
    IF s = "" THEN <<>>
    ELSE IF IsSpace(Char(s, 1)) THEN split(StrFrom(s, 1))
    ELSE <<SubSeq(s, 1, WordLen(s))>> \o split(StrFrom(s, WordLen(s)))

\* sep.join(words)
RECURSIVE join(_, _)
join(sep, words) ==
    IF words = <<>> THEN ""
    ELSE IF Len(words) = 1 THEN words[1]
    ELSE words[1] \o sep \o join(sep, Tail(words))

RECURSIVE lstrip(_)
lstrip(s) == IF s # "" /\ IsSpace(Char(s, 1)) THEN lstrip(StrFrom(s, 1)) ELSE s

RECURSIVE rstrip(_)
rstrip(s) ==
    IF s # "" /\ IsSpace(Char(s, Len(s))) THEN rstrip(SubSeq(s, 1, Len(s) - 1)) ELSE s

strip(s) == lstrip(rstrip(s))

\* the printable ASCII characters in code-point order: " " (32) to "_" (95),
\* and "a" (97) to "}" (125)
ASCII_32_95 ==
    " !\"#$%&'()*+,-./0123456789:;<=>?@ABCDEFGHIJKLMNOPQRSTUVWXYZ[\\]^_"

ASCII_97_125 == "abcdefghijklmnopqrstuvwxyz{|}"

\* ord(c) of a printable character
ord(c) ==
    IF \E k \in 1..Len(ASCII_32_95) : Char(ASCII_32_95, k) = c
    THEN 31 + CHOOSE k \in 1..Len(ASCII_32_95) : Char(ASCII_32_95, k) = c
    ELSE 96 + CHOOSE k \in 1..Len(ASCII_97_125) : Char(ASCII_97_125, k) = c

\* a < b on str: at the first position where they differ, a ends or has the smaller character
StrLess(a, b) ==
    \E k \in 1..Len(b) :
        /\ k <= Len(a) + 1
        /\ SubSeq(a, 1, k - 1) = SubSeq(b, 1, k - 1)
        /\ \/ k = Len(a) + 1
           \/ k <= Len(a) /\ ord(Char(a, k)) < ord(Char(b, k))

\* str(n) of a small natural number
str(n) == ToString(n)

-----------------------------------------------------------------------------
(* ScraperConfig and the helpers _resolve_url, _clean_text *)

base_url == "https://asic.gov.au"

\* urllib.parse.urljoin(base, url) for a base without a path and a url that
\* is a network-path ("//h/p"), an absolute path ("/p") or a plain relative path ("p")
urljoin(base, url) ==
    IF startswith(url, "//") THEN "https:" \o url
    ELSE IF startswith(url, "/") THEN base \o url
    ELSE base \o "/" \o url

\* an absent attribute (None) and the empty string are both ""
_resolve_url(url) ==
    IF url = "" THEN ""
    ELSE IF startswith(url, "http") THEN url
    ELSE urljoin(base_url, url)

_clean_text(text) ==
    IF text = "" THEN ""
    ELSE LET cleaned == replace(replace(text, NBSP, " "), "&nbsp;", " ")
         IN  strip(join(" ", split(cleaned)))

-----------------------------------------------------------------------------
(* The DOM behind the Selenium elements.                                   *)
(*   link:  text (link.text), href (get_attribute("href"); "" when absent) *)
(*   cell:  a <td>: text (cell.text), links (its <a> elements), stale      *)
(*          (every call on the element raises)                             *)
(*   row:   a <tr>: th (it has <th> elements), cells (its <td> elements)   *)
(*   table: id (the element's identity: its position among the page's      *)
(*          tables), displayed (is_displayed()), stale (listing its rows   *)
(*          raises), tbody (it has a <tbody>), head (the <tr> outside the  *)
(*          <tbody>), body (the <tr> inside it, or all other <tr>)         *)

Link(text, href) == [text |-> text, href |-> href]

Cell(text, links) == [text |-> text, links |-> links, stale |-> FALSE]

StaleCell(text, links) == [text |-> text, links |-> links, stale |-> TRUE]

Row(cells) == [th |-> FALSE, cells |-> cells]

HeaderRow == [th |-> TRUE, cells |-> <<>>]

Table(tbody, head, body) ==
    [id |-> 1, displayed |-> TRUE, stale |-> FALSE, tbody |-> tbody,
     head |-> head, body |-> body]

\* Python None, where a table is expected
None == [id |-> 0]

Rep(x, n) == [k \in 1..n |-> x]

SeqsUpTo(S, n) == UNION {[1..m -> S] : m \in 0..n}

\* the tables of a page, each with its own identity
PageOf(ts) == [k \in 1..Len(ts) |-> [ts[k] EXCEPT !.id = k]]

-----------------------------------------------------------------------------
(* _find_correct_table_for_year *)

FirstRows == 10      \* data_rows[:10]
MinPercent == 70     \* match_percentage > 70
MinLinks == 5        \* total_gazette_links > 5

\* the inner loops over the links of one cell (lines 204-210 and 216-221)
RECURSIVE ScanLinks(_, _, _)
ScanLinks(links, year_suffix, cnt) ==
    IF links = <<>> THEN cnt
    ELSE LET link_text == _clean_text(Head(links).text)
             counted == link_text # "" /\ StrIn("/", link_text)
             matched == counted /\ endswith(link_text, "/" \o year_suffix)
         IN  ScanLinks(Tail(links), year_suffix,
                       [cnt EXCEPT !.total = @ + (IF counted THEN 1 ELSE 0),
                                   !.match = @ + (IF matched THEN 1 ELSE 0)])

\* find_elements(By.TAG_NAME, "a") on a cell: raises on a stale element
ScanCell(cell, year_suffix, cnt) ==
    IF cnt.raised \/ cell.stale THEN [cnt EXCEPT !.raised = TRUE]
    ELSE ScanLinks(cell.links, year_suffix, cnt)

\* the body of "for row in data_rows[:10]"
ScanRow(row, year_suffix, cnt) ==
    LET cells == row.cells
    IN  IF Len(cells) >= 2
        THEN LET asic == ScanCell(cells[2], year_suffix, cnt)
             IN  IF Len(cells) >= 3 THEN ScanCell(cells[3], year_suffix, asic) ELSE asic
        ELSE cnt

RECURSIVE ScanRows(_, _, _)
ScanRows(rows, year_suffix, cnt) ==
    IF rows = <<>> \/ cnt.raised THEN cnt
    ELSE ScanRows(Tail(rows), year_suffix, ScanRow(Head(rows), year_suffix, cnt))

\* table.find_elements(By.TAG_NAME, "tr"): every <tr> of the table, in document order
AllRows(t) == t.head \o t.body

NoTh(row) == ~row.th

\* data_rows = [row for row in rows if not row.find_elements(By.TAG_NAME, "th")]
DataRows(t) == SelectSeq(AllRows(t), NoTh)

\* data_rows[:10]
SampleRows(t) == SubSeq(DataRows(t), 1, IF Len(DataRows(t)) < FirstRows
                                         THEN Len(DataRows(t)) ELSE FirstRows)

\* a bug: "at least 70%" taken literally
SelectedAtLeast(cnt) ==
    /\ cnt.total > 0
    /\ cnt.match * 100 >= MinPercent * cnt.total
    /\ cnt.total > MinLinks

\* match_percentage > 70 and total_gazette_links > 5, where match_percentage is
\* year_match_count / total_gazette_links * 100 (0 when there is no link).  The
\* float comparison agrees with the exact one for every total below 400.
Selected(cnt) ==
    /\ cnt.total > 0
    /\ cnt.match * 100 > MinPercent * cnt.total
    /\ cnt.total > MinLinks

\* one iteration of "for table_idx, table in enumerate(visible_tables)":
\* "return" (the table is selected) or "continue" (no data rows, not selected, or
\* an exception caught at line 233)
AnalyzeTable(t, year_suffix) ==
    IF t.stale THEN "continue"
    ELSE IF DataRows(t) = <<>> THEN "continue"
    ELSE LET cnt == ScanRows(SampleRows(t), year_suffix,
                             [total |-> 0, match |-> 0, raised |-> FALSE])
         IN  IF ~cnt.raised /\ Selected(cnt) THEN "return" ELSE "continue"

year_to_table_index ==
    ("2020" :> 0) @@ ("2019" :> 1) @@ ("2018" :> 3) @@ ("2017" :> 4) @@ ("2016" :> 5) @@
    ("2015" :> 6) @@ ("2014" :> 7) @@ ("2013" :> 8) @@ ("2012" :> 9) @@ ("2011" :> 10)

\* lines 237-251: the fallback on the table order
Fallback(visible_tables, y) ==
    IF y \in DOMAIN year_to_table_index /\ year_to_table_index[y] < Len(visible_tables)
    THEN visible_tables[year_to_table_index[y] + 1]
    ELSE None

\* year_suffix = year[-2:]
YearSuffix(y) == StrFrom(y, IF Len(y) < 2 THEN 0 ELSE Len(y) - 2)

\* the loop of lines 184-235 from candidate k on, then the fallback
RECURSIVE AnalyzeFrom(_, _, _)
AnalyzeFrom(visible_tables, k, y) ==
    IF k > Len(visible_tables) THEN Fallback(visible_tables, y)
    ELSE IF AnalyzeTable(visible_tables[k], YearSuffix(y)) = "return"
         THEN visible_tables[k]
         ELSE AnalyzeFrom(visible_tables, k + 1, y)

IsDisplayed(t) == t.displayed

\* visible_tables = [table for table in all_tables if table.is_displayed()]
VisibleTables(all_tables) == SelectSeq(all_tables, IsDisplayed)

\* a bug: the hidden tables are not filtered out
FindAmongAllTables(all_tables, y) == AnalyzeFrom(all_tables, 1, y)

_find_correct_table_for_year(all_tables, y) ==
    AnalyzeFrom(VisibleTables(all_tables), 1, y)

-----------------------------------------------------------------------------
(* Python dict: a function from keys to values *)

EmptyDict == [k \in {} |-> ""]

\* d[k] = v
Put(d, k, v) == [x \in DOMAIN d \cup {k} |-> IF x = k THEN v ELSE d[x]]

\* d.get(k, default)
Get(d, k, default) == IF k \in DOMAIN d THEN d[k] ELSE default

-----------------------------------------------------------------------------
(* _extract_multiple_links_data *)

\* the loop over the links of a cell: one title and one url per link
LinkTitles(links) == [k \in 1..Len(links) |-> _clean_text(links[k].text)]

LinkUrls(links) ==
    [k \in 1..Len(links) |->
        IF links[k].href # "" THEN _resolve_url(strip(links[k].href)) ELSE ""]

\* (titles, urls); an exception on a stale cell is caught at line 126
_extract_multiple_links_data(cell) ==
    IF cell.stale THEN [titles |-> <<>>, urls |-> <<>>]
    ELSE IF cell.links = <<>>
    THEN IF _clean_text(cell.text) # ""
         THEN [titles |-> <<_clean_text(cell.text)>>, urls |-> <<"">>]
         ELSE [titles |-> <<>>, urls |-> <<>>]
    ELSE [titles |-> LinkTitles(cell.links), urls |-> LinkUrls(cell.links)]

-----------------------------------------------------------------------------
(* _store_cell_data.  st is the pair the method updates: result (the row's  *)
(* dict) and cols (self.all_columns_found).                                 *)

\* a bug: the column is written but not tracked
StoreColUntracked(st, col, value) == [st EXCEPT !.result = Put(@, col, value)]

\* result[col] = value; self.all_columns_found.add(col)
StoreCol(st, col, value) ==
    [st EXCEPT !.result = Put(@, col, value), !.cols = @ \cup {col}]

\* while len(urls) < len(titles): urls.append("")
PadUrls(titles, urls) ==
    IF Len(urls) < Len(titles)
    THEN urls \o [k \in 1..(Len(titles) - Len(urls)) |-> ""]
    ELSE urls

\* a bug: the ordinal of a numbered column is the 0-based index
TitleColZeroBased(prefix, n) ==
    IF n = 0 THEN prefix \o "_title" ELSE prefix \o "_title_" \o str(n)

\* title_col of the pair at index n (0-based)
TitleCol(prefix, n) ==
    IF n = 0 THEN prefix \o "_title" ELSE prefix \o "_title_" \o str(n + 1)

\* url_col of the pair at index n (0-based)
UrlCol(prefix, n) ==
    IF n = 0 THEN prefix \o "_url" ELSE prefix \o "_url_" \o str(n + 1)

\* for i, (title, url) in enumerate(zip(titles, urls)), from index n (0-based) on
RECURSIVE StorePairs(_, _, _, _, _)
StorePairs(st, prefix, titles, urls, n) ==
    IF n >= Len(titles) \/ n >= Len(urls) THEN st
    ELSE StorePairs(StoreCol(StoreCol(st, TitleCol(prefix, n), titles[n + 1]),
                             UrlCol(prefix, n), urls[n + 1]),
                    prefix, titles, urls, n + 1)

\* for i in range(len(titles), len(urls)), from index n (0-based) on
RECURSIVE StoreRemainingUrls(_, _, _, _)
StoreRemainingUrls(st, prefix, urls, n) ==
    IF n >= Len(urls) THEN st
    ELSE StoreRemainingUrls(StoreCol(st, prefix \o "_url_" \o str(n + 1), urls[n + 1]),
                            prefix, urls, n + 1)

_store_cell_data(st, prefix, titles, urls) ==
    IF titles = <<>> /\ urls = <<>>
    THEN StoreCol(StoreCol(st, prefix \o "_title", ""), prefix \o "_url", "")
    ELSE StoreRemainingUrls(StorePairs(st, prefix, titles, PadUrls(titles, urls), 0),
                            prefix, PadUrls(titles, urls), Len(titles))

-----------------------------------------------------------------------------
(* _extract_row_data.  The value is [ok, result, cols]: ok is FALSE when the *)
(* method returns None; cols is self.all_columns_found after the call.       *)

\* a bug: the cell text replaces every title, not the first one only
OverrideEveryTitle(data, text) ==
    IF text # "" /\ data.titles = <<>> THEN [data EXCEPT !.titles = <<text>>]
    ELSE IF text # "" THEN [data EXCEPT !.titles = [k \in 1..Len(@) |-> text]]
    ELSE data

\* lines 294-299, 312-315, 319-322: the full text of the cell becomes the only
\* title, or replaces the first one
TextOverride(data, text) ==
    IF text # "" /\ data.titles = <<>> THEN [data EXCEPT !.titles = <<text>>]
    ELSE IF text # "" THEN [data EXCEPT !.titles[1] = text]
    ELSE data

\* _extract_multiple_links_data(cell), the cell's cleaned text, the override
NotesData(cell) ==
    TextOverride(_extract_multiple_links_data(cell), _clean_text(cell.text))

StoreCell(st, prefix, data) == _store_cell_data(st, prefix, data.titles, data.urls)

RowNone(cols) == [ok |-> FALSE, result |-> EmptyDict, cols |-> cols]

\* lines 266-285: Year, Date, the ASIC gazette cell and the business gazette cell
GazetteColumns(cells, y, cols) ==
    StoreCell(
        StoreCell([result |-> Put(Put(EmptyDict, "Year", y), "Date", _clean_text(cells[1].text)),
                   cols |-> cols \cup {"Year", "Date"}],
                  "ASIC_Gazette", _extract_multiple_links_data(cells[2])),
        "Business_Gazette", _extract_multiple_links_data(cells[3]))

\* a bug: every row of 4 or more cells is read in the 4-column layout
ExtractRowFourColumnLayout(row, y, cols) ==
    LET cells == row.cells
    IN  IF Len(cells) < 4 THEN RowNone(cols)
        ELSE IF cells[1].stale THEN RowNone(cols)
        ELSE LET st == GazetteColumns(cells, y, cols)
             IN  IF cells[4].stale THEN RowNone(st.cols)
                 ELSE LET done == StoreCell(st, "Other_Notes", NotesData(cells[4]))
                      IN  [ok |-> TRUE, result |-> done.result, cols |-> done.cols]

\* a bug: rows of 3 cells are taken for 4-column rows without notes
ExtractRowFromThreeCells(row, y, cols) ==
    LET cells == row.cells
    IN  IF Len(cells) < 3 THEN RowNone(cols)
        ELSE IF cells[1].stale THEN RowNone(cols)
        ELSE LET st == GazetteColumns(cells, y, cols)
             IN  IF Len(cells) = 3
                 THEN [ok |-> TRUE, result |-> st.result, cols |-> st.cols]
                 ELSE IF cells[4].stale THEN RowNone(st.cols)
                 ELSE LET done == StoreCell(st, "Other_Notes", NotesData(cells[4]))
                      IN  [ok |-> TRUE, result |-> done.result, cols |-> done.cols]

_extract_row_data(row, y, cols) ==
    LET cells == row.cells
    IN  IF Len(cells) < 4 THEN RowNone(cols)
        \* cells[0].text raises: nothing is registered yet
        ELSE IF cells[1].stale THEN RowNone(cols)
        ELSE LET st == GazetteColumns(cells, y, cols)
             IN  IF Len(cells) = 4
                 THEN \* cells[3].text raises after the gazette columns are registered
                      IF cells[4].stale THEN RowNone(st.cols)
                      ELSE LET done == StoreCell(st, "Other_Notes", NotesData(cells[4]))
                           IN  [ok |-> TRUE, result |-> done.result, cols |-> done.cols]
                 ELSE \* cells[3].text or cells[4].text raises before Other is stored
                      IF cells[4].stale \/ cells[5].stale THEN RowNone(st.cols)
                      ELSE LET done == StoreCell(StoreCell(st, "Other", NotesData(cells[4])),
                                                 "Notes", NotesData(cells[5]))
                           IN  [ok |-> TRUE, result |-> done.result, cols |-> done.cols]

-----------------------------------------------------------------------------
(* _generate_dynamic_headers and _normalize_row_data *)

\* the place of x in the sorted list q: after every element that is not greater
SortedInsert(q, x) ==
    LET k == Cardinality({j \in 1..Len(q) : ~StrLess(x, q[j])})
    IN  SubSeq(q, 1, k) \o <<x>> \o SubSeq(q, k + 1, Len(q))

\* sorted(q) for a list of str
RECURSIVE sorted(_)
sorted(q) ==
    IF q = <<>> THEN <<>>
    ELSE SortedInsert(sorted(SubSeq(q, 1, Len(q) - 1)), q[Len(q)])

IsAsic(col) == startswith(col, "ASIC_Gazette")
IsBusiness(col) == startswith(col, "Business_Gazette")
IsOtherNotes(col) == startswith(col, "Other_Notes")
IsOtherOnly(col) == startswith(col, "Other") /\ ~startswith(col, "Other_Notes")
IsNotes(col) == startswith(col, "Notes")

\* a bug: the columns left over are appended in the order the set yields them
HeadersWithUnsortedRest(cols) ==
    LET ordered_headers ==
            <<"Year", "Date">>
            \o sorted(SelectSeq(cols, IsAsic))
            \o sorted(SelectSeq(cols, IsBusiness))
            \o sorted(SelectSeq(cols, IsOtherOnly))
            \o sorted(SelectSeq(cols, IsNotes))
            \o sorted(SelectSeq(cols, IsOtherNotes))
        NotPlaced(col) == \A k \in 1..Len(ordered_headers) : ordered_headers[k] # col
    IN  ordered_headers \o SelectSeq(cols, NotPlaced)

\* a bug: the columns of no known prefix are left out
HeadersWithoutRest(cols) ==
    <<"Year", "Date">>
    \o sorted(SelectSeq(cols, IsAsic))
    \o sorted(SelectSeq(cols, IsBusiness))
    \o sorted(SelectSeq(cols, IsOtherOnly))
    \o sorted(SelectSeq(cols, IsNotes))
    \o sorted(SelectSeq(cols, IsOtherNotes))

\* cols: the elements of self.all_columns_found in the order the set yields them
_generate_dynamic_headers(cols) ==
    LET ordered_headers ==
            <<"Year", "Date">>
            \o sorted(SelectSeq(cols, IsAsic))
            \o sorted(SelectSeq(cols, IsBusiness))
            \o sorted(SelectSeq(cols, IsOtherOnly))
            \o sorted(SelectSeq(cols, IsNotes))
            \o sorted(SelectSeq(cols, IsOtherNotes))
        NotPlaced(col) == \A k \in 1..Len(ordered_headers) : ordered_headers[k] # col
    IN  ordered_headers \o sorted(SelectSeq(cols, NotPlaced))

\* the orders in which a set S can yield its elements
Orders(S) ==
    {q \in [1..Cardinality(S) -> S] : \A a, b \in 1..Cardinality(S) : a # b => q[a] # q[b]}

\* one such order, and its reverse
RECURSIVE SomeOrder(_)
SomeOrder(S) ==
    IF S = {} THEN <<>>
    ELSE LET x == CHOOSE x \in S : TRUE IN <<x>> \o SomeOrder(S \ {x})

Reverse(q) == [k \in 1..Len(q) |-> q[Len(q) + 1 - k]]

\* the loop "for header in headers" from position n on; st is the pair of
\* normalized (being built) and row_data
RECURSIVE NormalizeFrom(_, _, _)
NormalizeFrom(st, hdrs, n) ==
    IF n > Len(hdrs) THEN st
    ELSE NormalizeFrom(
             [st EXCEPT !.normalized = Put(@, hdrs[n], Get(st.row_data, hdrs[n], ""))],
             hdrs, n + 1)

\* a bug: the defaults are filled into row_data itself, which is returned
NormalizeInPlace(row_data, hdrs) ==
    LET st == NormalizeFrom([normalized |-> row_data, row_data |-> row_data], hdrs, 1)
    IN  [normalized |-> st.normalized, row_data |-> st.normalized]

\* [normalized: the dict returned, row_data: the argument after the call]
_normalize_row_data(row_data, hdrs) ==
    NormalizeFrom([normalized |-> EmptyDict, row_data |-> row_data], hdrs, 1)

-----------------------------------------------------------------------------
(* Sample DOM content *)

LA20 == Link(" A01/20", "/gaz/A01-20")
LB20 == Link("B01/20", "http://asic.gov.au/gaz/B01-20")
LA19 == Link("A52/19", "/gaz/A52-19")
LB19 == Link("B52/19~", "gaz/B52-19")
LDoc == Link("see doc", "/doc/5")

\* the text of a cell that holds nothing but its links
TextOf(links) == join(" ", [k \in 1..Len(links) |-> links[k].text])

LinkCell(links) == Cell(TextOf(links), links)

\* a gazette row: date, ASIC gazette links, business gazette links, empty notes
GRow(asic, business) ==
    Row(<<Cell("01/03/2020", <<>>), LinkCell(asic), LinkCell(business), Cell("", <<>>)>>)

\* six links matching "/20", all of 2020
T_hit20 == Table(TRUE, <<HeaderRow>>, Rep(GRow(<<LA20>>, <<LB20>>), 3))
\* six links matching "/19", no <tbody>
T_hit19 == Table(FALSE, <<>>, <<HeaderRow>> \o Rep(GRow(<<LA19, LB19>>, <<LB19>>), 2))
\* five links, all matching "/20"
T_five == Table(TRUE, <<>>, Rep(GRow(<<LA20>>, <<LB20>>), 2) \o <<GRow(<<LA20>>, <<>>)>>)
\* ten links, seven matching "/20" and three matching "/19"
T_seventy ==
    Table(TRUE, <<HeaderRow>>,
          Rep(GRow(<<LA20>>, <<LB20>>), 3) \o <<GRow(<<LA20>>, <<LB19>>), GRow(<<LA19>>, <<LB19>>)>>)
\* 8 of the first 10 data rows match "/20", 8 of all 15
T_window ==
    Table(TRUE, <<HeaderRow>>,
          Rep(GRow(<<LA20>>, <<>>), 8) \o Rep(GRow(<<LA19>>, <<>>), 7))
\* a table of header rows only
T_empty == Table(TRUE, <<HeaderRow>>, <<>>)
\* six matching links, then a row whose ASIC cell is stale
T_stalecell ==
    Table(TRUE, <<>>,
          Rep(GRow(<<LA20>>, <<LB20>>), 3) \o
          <<Row(<<Cell("02/03/2020", <<>>), StaleCell("A02/20", <<LA20>>)>>)>>)
\* a table whose rows cannot be listed
T_stale == [T_hit20 EXCEPT !.stale = TRUE]
\* a hidden table
T_hidden == [T_hit20 EXCEPT !.displayed = FALSE]
\* links in cell 0 and in cell 3 only, links without "/", rows of one cell
T_plain ==
    Table(TRUE, <<>>,
          <<Row(<<LinkCell(<<LA20, LA20, LA20, LA20, LA20, LA20>>)>>),
            Row(<<LinkCell(<<LA20, LB20>>), Cell("", <<>>), Cell("N/A", <<>>),
                  LinkCell(<<LA20, LB20, LA20, LB20>>)>>),
            Row(<<Cell("03/03/2020", <<>>), LinkCell(<<LDoc>>)>>)>>)

-----------------------------------------------------------------------------
(* SpecResolve: _find_correct_table_for_year on every page of up to        *)
(* MaxTables sample tables, and a few longer ones                          *)

MaxTables == 3

ResolveTables ==
    {T_hit20, T_hit19, T_five, T_seventy, T_window, T_empty, T_stalecell, T_hidden, T_plain}

ResolvePages ==
    {PageOf(ts) : ts \in SeqsUpTo(ResolveTables, MaxTables)}
    \cup {PageOf(<<T_plain, T_hidden, T_five, T_empty, T_hidden, T_stale, T_seventy>>),
          PageOf(<<T_plain, T_five, T_empty, T_stale, T_hit19>>),
          PageOf(<<T_plain, T_five, T_empty, T_hidden, T_hit19>>)}

ResolveYears == {"2020", "2019", "2018", "1999"}

InitResolve ==
    /\ page \in ResolvePages
    /\ year \in ResolveYears
    /\ pc = "resolve"
    /\ sections = <<>>
    /\ i = 0
    /\ table = None
    /\ row_idx = 0
    /\ data_rows = <<>>
    /\ all_data = <<>>
    /\ all_columns_found = {}
    /\ headers = <<>>
    /\ normalized_data = <<>>
    /\ arg = <<>>
    /\ ret = <<>>

FindTable ==
    /\ pc = "resolve"
    /\ table' = _find_correct_table_for_year(page, year)
    /\ pc' = "resolved"
    /\ UNCHANGED <<page, sections, i, year, row_idx, data_rows, all_data,
                   all_columns_found, headers, normalized_data, arg, ret>>

NextResolve == FindTable

SpecResolve == InitResolve /\ [][NextResolve]_vars

-----------------------------------------------------------------------------
(* _extract_table_data, scrape_data (from step 3 on) and save_to_csv *)

\* rows: the <tr> of the <tbody>, or without a <tbody> the <tr> without <th>
TableRows(t) == IF t.tbody THEN t.body ELSE SelectSeq(AllRows(t), NoTh)

potential_years ==
    <<"2020", "2019", "2018", "2017", "2016", "2015", "2014", "2013", "2012", "2011">>

\* lines 478-482: the first potential year the text of the section contains
YearOf(year_text) ==
    IF \E k \in 1..Len(potential_years) : StrIn(potential_years[k], year_text)
    THEN potential_years[CHOOSE k \in 1..Len(potential_years) :
                            /\ StrIn(potential_years[k], year_text)
                            /\ \A j \in 1..(k - 1) : ~StrIn(potential_years[j], year_text)]
    ELSE "Unknown"

\* Sample rows
RowA ==
    Row(<<Cell("01/03/2015", <<>>), LinkCell(<<Link("15/123", "/gaz/123")>>),
          Cell("N/A", <<>>), Cell("Correction notice", <<Link("see doc", "/doc/5")>>)>>)
RowMulti ==
    Row(<<Cell(" 08/03/2015~", <<>>), LinkCell(<<LA20, Link("", " /gaz/img ")>>),
          Cell("&nbsp;", <<>>), Cell("See A01/20,  B01/20", <<LA20, LB20, LDoc>>)>>)
RowShort == Row(<<Cell("15/03/2015", <<>>), LinkCell(<<LA20>>), LinkCell(<<LB20>>)>>)
RowTwo == Row(<<Cell("22/03/2015", <<>>), LinkCell(<<LA20>>)>>)
RowOne == Row(<<LinkCell(<<LA19>>)>>)
RowNoCells == Row(<<>>)
RowFive ==
    Row(<<Cell("05/04/2019", <<>>), LinkCell(<<LA19>>), LinkCell(<<LB19>>),
          Cell("Other matter", <<>>), Cell("Notes text", <<LDoc, LA19>>)>>)
RowSix ==
    Row(<<Cell("12/04/2019", <<>>), Cell("", <<>>), LinkCell(<<LB19, LB20>>),
          LinkCell(<<LDoc>>), Cell("", <<>>), LinkCell(<<LA19>>)>>)
RowStaleDate ==
    Row(<<StaleCell("19/04/2019", <<>>), LinkCell(<<LA19>>), LinkCell(<<LB19>>),
          Cell("late", <<>>)>>)
RowStaleAsic ==
    Row(<<Cell("26/04/2019", <<>>), StaleCell("A52/19", <<LA19>>), LinkCell(<<LB19>>),
          Cell(" ", <<Link("", "http://asic.gov.au/img")>>)>>)
RowStaleNotes4 ==
    Row(<<Cell("03/05/2019", <<>>), LinkCell(<<LA19, LA20>>), LinkCell(<<LB19>>),
          StaleCell("gone", <<LDoc>>)>>)
RowStaleNotes5 ==
    Row(<<Cell("10/05/2019", <<>>), LinkCell(<<LA19>>), LinkCell(<<LB19, LB20, LA19>>),
          Cell("Other matter", <<LDoc>>), StaleCell("gone", <<>>)>>)

\* Sample tables
S_one == Table(TRUE, <<HeaderRow>>, <<RowA, RowShort, RowMulti, RowStaleNotes4>>)
S_two == Table(FALSE, <<>>, <<HeaderRow, RowFive, RowNoCells, RowSix, RowTwo, RowStaleNotes5>>)
S_three == Table(TRUE, <<>>, <<HeaderRow, RowStaleDate, RowOne, RowStaleAsic>>)

MaxPage == 2
MaxSections == 2

\* tables with rows of every kind, and tables that are selected by their links or
\* whose rows cannot be listed
SessionTables == {S_one, S_two, S_three}

OtherTables == {T_hit19, T_stale}

\* the pages of up to MaxPage tables, one of the other tables at most, as the last
SessionPages ==
    {PageOf(ts) : ts \in SeqsUpTo(SessionTables, MaxPage)}
    \cup {PageOf(ts \o <<t>>) : ts \in SeqsUpTo(SessionTables, MaxPage - 1), t \in OtherTables}

SectionTexts == {"Gazettes 2020", "2018 - 2019"}

Init ==
    /\ page \in SessionPages
    /\ sections \in SeqsUpTo(SectionTexts, MaxSections)
    /\ pc = "section"
    /\ i = 0
    /\ year = ""
    /\ table = None
    /\ row_idx = 0
    /\ data_rows = <<>>
    /\ all_data = <<>>
    /\ all_columns_found = {}
    /\ headers = <<>>
    /\ normalized_data = <<>>
    /\ arg = <<>>
    /\ ret = <<>>

\* a bug: a section without a table ends the loop over the sections (a break where
\* the code goes on to the next section)
ProcessSectionAborting ==
    /\ pc = "section"
    /\ i < Len(sections)
    /\ year' = YearOf(sections[i + 1])
    /\ table' = _find_correct_table_for_year(page, year')
    /\ row_idx' = 0
    /\ data_rows' = <<>>
    /\ IF table' = None
       THEN pc' = "section" /\ i' = Len(sections)
       ELSE IF table'.stale
       THEN pc' = "section" /\ i' = i + 1
       ELSE pc' = "rows" /\ i' = i
    /\ UNCHANGED <<page, sections, all_data, all_columns_found, headers, normalized_data,
                   arg, ret>>

\* lines 475-492: the next section: its year, its table; a table that is None, or
\* whose rows cannot be listed (_extract_table_data returns []), ends the section
ProcessSection ==
    /\ pc = "section"
    /\ i < Len(sections)
    /\ year' = YearOf(sections[i + 1])
    /\ table' = _find_correct_table_for_year(page, year')
    /\ row_idx' = 0
    /\ data_rows' = <<>>
    /\ IF table' = None \/ table'.stale
       THEN pc' = "section" /\ i' = i + 1
       ELSE pc' = "rows" /\ i' = i
    /\ UNCHANGED <<page, sections, all_data, all_columns_found, headers, normalized_data,
                   arg, ret>>

\* lines 348-351: one iteration of the loop over the rows
ExtractRow ==
    /\ pc = "rows"
    /\ row_idx < Len(TableRows(table))
    /\ LET row_data == _extract_row_data(TableRows(table)[row_idx + 1], year, all_columns_found)
       IN  /\ all_columns_found' = row_data.cols
           /\ data_rows' = IF row_data.ok THEN Append(data_rows, row_data.result)
                           ELSE data_rows
    /\ row_idx' = row_idx + 1
    /\ UNCHANGED <<page, sections, pc, i, year, table, all_data, headers, normalized_data,
                   arg, ret>>

\* a bug: the rows of a section are put in front of the rows already collected
ReturnRowsPrepending ==
    /\ pc = "rows"
    /\ row_idx = Len(TableRows(table))
    /\ all_data' = data_rows \o all_data
    /\ i' = i + 1
    /\ pc' = "section"
    /\ UNCHANGED <<page, sections, year, table, row_idx, data_rows, all_columns_found,
                   headers, normalized_data, arg, ret>>

\* line 357 and lines 493-498: the rows are returned and appended to all_data
ReturnRows ==
    /\ pc = "rows"
    /\ row_idx = Len(TableRows(table))
    /\ all_data' = all_data \o data_rows
    /\ i' = i + 1
    /\ pc' = "section"
    /\ UNCHANGED <<page, sections, year, table, row_idx, data_rows, all_columns_found,
                   headers, normalized_data, arg, ret>>

\* line 509 (or line 448, without sections): scrape_data returns self.all_data
ReturnData ==
    /\ pc = "section"
    /\ i = Len(sections)
    /\ pc' = "save"
    /\ UNCHANGED <<page, sections, i, year, table, row_idx, data_rows, all_data,
                   all_columns_found, headers, normalized_data, arg, ret>>

\* save_to_csv(data), up to the writing of the file
SaveToCsv ==
    /\ pc = "save"
    /\ pc' = "done"
    /\ IF all_data = <<>>
       THEN UNCHANGED <<headers, normalized_data>>
       ELSE /\ \E cols \in {SomeOrder(all_columns_found), Reverse(SomeOrder(all_columns_found))} :
                  headers' = _generate_dynamic_headers(cols)
            /\ normalized_data' =
                  [k \in 1..Len(all_data) |->
                      _normalize_row_data(all_data[k], headers').normalized]
    /\ UNCHANGED <<page, sections, i, year, table, row_idx, data_rows, all_data,
                   all_columns_found, arg, ret>>

Next == ProcessSection \/ ExtractRow \/ ReturnRows \/ ReturnData \/ SaveToCsv

Spec == Init /\ [][Next]_vars

\* the control state of the session: where it is, in which section, at which row
ctl == <<pc, i, row_idx>>

\* the session moves on: to another place, to the next section or to another row
Step ==
    /\ pc # "done"
    /\ pc' \in {"section", "rows", "save", "done"}
    /\ i' \in {i, i + 1}
    /\ row_idx' \in {0, row_idx + 1}

\* main runs scrape_data and save_to_csv to completion: the loops are over finite
\* lists and no step waits on anything, so a session that is not done moves on
FairSpec == Spec /\ WF_ctl(Step)

-----------------------------------------------------------------------------
(* SpecStore: _store_cell_data on every pair of lists of up to MaxItems      *)
(* titles and urls, called on a row's dict that holds Year and Date          *)

MaxItems == 3

StoreValues == {"", "A01/20", "see doc"}

StorePrefixes == {"ASIC_Gazette", "Other_Notes"}

InitStore ==
    /\ arg \in [prefix : StorePrefixes,
                titles : SeqsUpTo(StoreValues, MaxItems),
                urls : SeqsUpTo(StoreValues, MaxItems),
                result : {Put(Put(EmptyDict, "Year", "2020"), "Date", "01/03/2020")}]
    /\ all_columns_found = {"Year", "Date"}
    /\ pc = "store"
    /\ ret = EmptyDict
    /\ page = <<>>
    /\ sections = <<>>
    /\ i = 0
    /\ year = ""
    /\ table = None
    /\ row_idx = 0
    /\ data_rows = <<>>
    /\ all_data = <<>>
    /\ headers = <<>>
    /\ normalized_data = <<>>

\* self._store_cell_data(result, prefix, titles, urls); ret is result after the call
StoreCellData ==
    /\ pc = "store"
    /\ LET st == _store_cell_data([result |-> arg.result, cols |-> all_columns_found],
                                  arg.prefix, arg.titles, arg.urls)
       IN  ret' = st.result /\ all_columns_found' = st.cols
    /\ pc' = "stored"
    /\ UNCHANGED <<page, sections, i, year, table, row_idx, data_rows, all_data, headers,
                   normalized_data, arg>>

NextStore == StoreCellData

SpecStore == InitStore /\ [][NextStore]_vars

-----------------------------------------------------------------------------
(* SpecHeaders: keys are registered in any order, any number of times, up to *)
(* MaxKeys distinct keys; then the headers are generated, the set yielding   *)
(* its elements in any order                                                 *)

MaxKeys == 4

HeaderKeys ==
    {"Year", "Date", "ASIC_Gazette_title", "ASIC_Gazette_title_2", "ASIC_Gazette_title_10",
     "Business_Gazette_url", "Other_title", "Other_Notes_title", "Notes_url", "Other",
     "Zebra", "Misc_url"}

InitHeaders ==
    /\ all_columns_found = {}
    /\ headers = <<>>
    /\ pc = "register"
    /\ page = <<>>
    /\ sections = <<>>
    /\ i = 0
    /\ year = ""
    /\ table = None
    /\ row_idx = 0
    /\ data_rows = <<>>
    /\ all_data = <<>>
    /\ normalized_data = <<>>
    /\ arg = <<>>
    /\ ret = <<>>

\* self.all_columns_found.add(key)
Register ==
    /\ pc = "register"
    /\ \E key \in HeaderKeys :
          /\ Cardinality(all_columns_found \cup {key}) <= MaxKeys
          /\ all_columns_found' = all_columns_found \cup {key}
    /\ UNCHANGED <<page, sections, pc, i, year, table, row_idx, data_rows, all_data, headers,
                   normalized_data, arg, ret>>

\* headers = self._generate_dynamic_headers()
GenerateHeaders ==
    /\ pc = "register"
    /\ \E cols \in Orders(all_columns_found) : headers' = _generate_dynamic_headers(cols)
    /\ pc' = "derived"
    /\ UNCHANGED <<page, sections, i, year, table, row_idx, data_rows, all_data,
                   all_columns_found, normalized_data, arg, ret>>

NextHeaders == Register \/ GenerateHeaders

SpecHeaders == InitHeaders /\ [][NextHeaders]_vars

-----------------------------------------------------------------------------
(* SpecNormalize: _normalize_row_data on sample records and every list of up *)
(* to MaxHeaders headers, and once more on its own result                    *)

MaxHeaders == 3

NormalizeHeaders == {"Year", "Date", "Notes_title"}

\* the records over the keys Year, Notes_title and Extra
NormalizeRecords ==
    UNION {[keys -> {"", "2020"}] : keys \in SUBSET {"Year", "Notes_title", "Extra"}}

InitNormalize ==
    /\ \E r \in NormalizeRecords, hdrs \in SeqsUpTo(NormalizeHeaders, MaxHeaders) :
          arg = [row_data |-> r, headers |-> hdrs, original |-> r]
    /\ ret = <<>>
    /\ pc = "normalize"
    /\ page = <<>>
    /\ sections = <<>>
    /\ i = 0
    /\ year = ""
    /\ table = None
    /\ row_idx = 0
    /\ data_rows = <<>>
    /\ all_data = <<>>
    /\ all_columns_found = {}
    /\ headers = <<>>
    /\ normalized_data = <<>>

\* n = self._normalize_row_data(row_data, headers); arg.row_data is row_data
\* after the call, arg.original what it was before
Normalize ==
    /\ pc = "normalize"
    /\ LET out == _normalize_row_data(arg.row_data, arg.headers)
       IN  ret' = <<out.normalized>> /\ arg' = [arg EXCEPT !.row_data = out.row_data]
    /\ pc' = "once"
    /\ UNCHANGED <<page, sections, i, year, table, row_idx, data_rows, all_data,
                   all_columns_found, headers, normalized_data>>

\* self._normalize_row_data(n, headers)
NormalizeAgain ==
    /\ pc = "once"
    /\ LET out == _normalize_row_data(ret[1], arg.headers)
       IN  ret' = <<out.row_data, out.normalized>>
    /\ pc' = "twice"
    /\ UNCHANGED <<page, sections, i, year, table, row_idx, data_rows, all_data,
                   all_columns_found, headers, normalized_data, arg>>

NextNormalize == Normalize \/ NormalizeAgain

SpecNormalize == InitNormalize /\ [][NextNormalize]_vars

-----------------------------------------------------------------------------
(* Claims about _find_correct_table_for_year, stated on the DOM *)

\* positions, among all <tr> of t, of its first ten rows without <th>
C1_Window(t) ==
    {r \in 1..Len(AllRows(t)) :
        /\ ~AllRows(t)[r].th
        /\ Cardinality({q \in 1..r : ~AllRows(t)[q].th}) <= 10}

\* the cells the scan reads: cell index 1, and cell index 2 if present, of the
\* window's rows of at least 2 cells, as <<row, cell>> positions (1-based)
C1_Cells(t) ==
    {rc \in C1_Window(t) \X {2, 3} :
        Len(AllRows(t)[rc[1]].cells) >= 2 /\ rc[2] <= Len(AllRows(t)[rc[1]].cells)}

\* the links counted: those whose cleaned text contains "/"
C1_Links(t) ==
    UNION {{<<rc[1], rc[2], l>> : l \in
               {l \in 1..Len(AllRows(t)[rc[1]].cells[rc[2]].links) :
                   StrIn("/", _clean_text(AllRows(t)[rc[1]].cells[rc[2]].links[l].text))}} :
           rc \in C1_Cells(t)}

C1_Matched(t, key) ==
    {p \in C1_Links(t) :
        endswith(_clean_text(AllRows(t)[p[1]].cells[p[2]].links[p[3]].text),
                 "/" \o SubSeq(key, Len(key) - 1, Len(key)))}

C1_ScanCompletes(t) ==
    ~t.stale /\ \A rc \in C1_Cells(t) : ~AllRows(t)[rc[1]].cells[rc[2]].stale

\* matchedLinks / totalLinks > 0.70 and totalLinks > 5, for a scan that completes
C1_Qualifies(t, key) ==
    LET totalLinks == Cardinality(C1_Links(t))
    IN  /\ C1_ScanCompletes(t)
        /\ totalLinks > 5
        /\ 10 * Cardinality(C1_Matched(t, key)) > 7 * totalLinks

C1_Candidate(k) == page[k].displayed /\ C1_Qualifies(page[k], year)

\* positions of the visible candidates that qualify
C1_Candidates == {k \in 1..Len(page) : C1_Candidate(k)}

C2_Visible == {k \in 1..Len(page) : page[k].displayed}

\* C2: when no visible candidate qualifies, the resolver returns the visible
\* candidate at the ordinal (counted among the visible tables only) the fallback
\* map gives for the key, if the key is in the map and the ordinal is in range,
\* and None in every other case.
C2_Fallback ==
    (pc = "resolved" /\ C1_Candidates = {}) =>
        IF year \in DOMAIN year_to_table_index
           /\ year_to_table_index[year] < Cardinality(C2_Visible)
        THEN \E k \in C2_Visible :
                /\ Cardinality({j \in C2_Visible : j < k}) = year_to_table_index[year]
                /\ table = page[k]
        ELSE table = None

\* "2018" falls back to ordinal 3 of 5 visible tables, which is not the page's table 3
C2_Witness ==
    /\ pc = "resolved"
    /\ year = "2018"
    /\ C1_Candidates = {}
    /\ Cardinality(C2_Visible) = 5
    /\ table # None
    /\ table # page[4]

-----------------------------------------------------------------------------
(* Claims about the rows extracted in a session (Spec) *)

\* the row ExtractRow reads next, and the one it has just read
NextRow == TableRows(table)[row_idx + 1]
LastRow == TableRows(table)[row_idx]

C3_Base(rec) ==
    {"Year", "Date", "ASIC_Gazette_title", "ASIC_Gazette_url",
     "Business_Gazette_title", "Business_Gazette_url"} \subseteq DOMAIN rec

\* the layout of a row of exactly 4 cells
C3_FourCells(rec) ==
    /\ {"Other_Notes_title", "Other_Notes_url"} \subseteq DOMAIN rec
    /\ \A key \in DOMAIN rec :
          /\ startswith(key, "Other_") => startswith(key, "Other_Notes")
          /\ ~startswith(key, "Notes")

\* the layout of a row of 5 or more cells
C3_FiveCells(rec) ==
    /\ {"Other_title", "Other_url", "Notes_title", "Notes_url"} \subseteq DOMAIN rec
    /\ \A key \in DOMAIN rec : ~startswith(key, "Other_Notes")

\* a step that appends a Record to the rows of the current table
C3_RowStep ==
    (pc = "rows" /\ data_rows' # data_rows) =>
        /\ Len(data_rows') = Len(data_rows) + 1
        /\ SubSeq(data_rows', 1, Len(data_rows)) = data_rows
        /\ year = YearOf(sections[i + 1])
        /\ LET rec == data_rows'[Len(data_rows')]
           IN  /\ C3_Base(rec)
               /\ rec["Year"] = year
               /\ Len(NextRow.cells) >= 4
               /\ Len(NextRow.cells) = 4 => C3_FourCells(rec)
               /\ Len(NextRow.cells) >= 5 => C3_FiveCells(rec)

\* a step that appends Records to the output: they are the rows of the current table
C3_OutputStep ==
    all_data' # all_data => all_data' = all_data \o data_rows

\* C3: every Record of the output has Year (the partition key it was extracted
\* under), Date and the two gazette base pairs, and exactly one layout: that of
\* its row of exactly 4 cells (Other_Notes, nothing else starting with Other_ or
\* Notes) or that of its row of 5 or more cells (Other and Notes, no Other_Notes).
C3_RecordLayout ==
    /\ [](\A k \in 1..Len(all_data) :
            /\ C3_Base(all_data[k])
            /\ all_data[k]["Year"] \in {YearOf(sections[j]) : j \in 1..Len(sections)}
            /\ C3_FourCells(all_data[k]) # C3_FiveCells(all_data[k]))
    /\ [][C3_RowStep /\ C3_OutputStep]_vars

\* the output holds a Record of each layout
C3_Witness ==
    \E a, b \in 1..Len(all_data) :
        /\ C3_FourCells(all_data[a]) /\ all_data[a]["Year"] = "2020"
        /\ C3_FiveCells(all_data[b]) /\ all_data[b]["Year"] = "2019"

\* the url stored for a link
C4_Url(link) == IF link.href = "" THEN "" ELSE _resolve_url(strip(link.href))

\* the text override on the cell stored under prefix
C4_Override(rec, prefix, cell) ==
    LET text == _clean_text(cell.text)
        N == Len(cell.links)
    IN  /\ (text # "" /\ N = 0) =>
              /\ rec[prefix \o "_title"] = text
              /\ rec[prefix \o "_url"] = ""
              /\ (prefix \o "_title_2") \notin DOMAIN rec
              /\ (prefix \o "_url_2") \notin DOMAIN rec
        /\ (text # "" /\ N >= 1) =>
              /\ rec[prefix \o "_title"] = text
              /\ rec[prefix \o "_url"] = C4_Url(cell.links[1])
              /\ \A n \in 2..N :
                    /\ rec[prefix \o "_title_" \o ToString(n)] = _clean_text(cell.links[n].text)
                    /\ rec[prefix \o "_url_" \o ToString(n)] = C4_Url(cell.links[n])

\* a gazette cell with links: the first title is the first link's text
C4_NoOverride(rec, prefix, cell) ==
    (~cell.stale /\ Len(cell.links) >= 1) =>
        rec[prefix \o "_title"] = _clean_text(cell.links[1].text)

\* C4: in the Record of a row, the Other_Notes cell (4 cells), and the Other and
\* the Notes cells (5 or more cells), with non-empty text, store the text as the
\* only title with an empty url when they have no link, and with links store the
\* text as the first title, the first link's url, and the links 2..N unchanged;
\* the gazette cells keep their first link's text as first title.
C4_TextOverride ==
    [][(pc = "rows" /\ data_rows' # data_rows) =>
          LET rec == data_rows'[Len(data_rows')]
              cells == NextRow.cells
          IN  /\ Len(cells) = 4 => C4_Override(rec, "Other_Notes", cells[4])
              /\ Len(cells) >= 5 => /\ C4_Override(rec, "Other", cells[4])
                                    /\ C4_Override(rec, "Notes", cells[5])
              /\ C4_NoOverride(rec, "ASIC_Gazette", cells[2])
              /\ C4_NoOverride(rec, "Business_Gazette", cells[3])]_vars

\* a row of 4 cells was extracted whose notes cell has text and several links,
\* the text differing from the first link's text
C4_Witness ==
    /\ pc = "rows"
    /\ row_idx >= 1
    /\ data_rows # <<>>
    /\ Len(LastRow.cells) = 4
    /\ ~LastRow.cells[4].stale
    /\ Len(LastRow.cells[4].links) >= 2
    /\ _clean_text(LastRow.cells[4].text) # ""
    /\ _clean_text(LastRow.cells[4].text) # _clean_text(LastRow.cells[4].links[1].text)
    /\ data_rows[Len(data_rows)]["Date"] = _clean_text(LastRow.cells[1].text)
    /\ data_rows[Len(data_rows)]["Other_Notes_title"] = _clean_text(LastRow.cells[4].text)

Range(q) == {q[k] : k \in 1..Len(q)}

\* C9: every key of every Record of the output is in all_columns_found; so at the
\* end every such key is a header, and the normalized Records hold every key of
\* their Record with its value.
C9_KeysRegistered ==
    /\ \A k \in 1..Len(all_data) : DOMAIN all_data[k] \subseteq all_columns_found
    /\ (pc = "done" /\ all_data # <<>>) =>
          /\ Len(normalized_data) = Len(all_data)
          /\ \A k \in 1..Len(all_data) :
                /\ DOMAIN all_data[k] \subseteq Range(headers)
                /\ \A key \in DOMAIN all_data[k] : normalized_data[k][key] = all_data[k][key]

\* the output was saved with Records of different key sets
C9_Witness ==
    /\ pc = "done"
    /\ \E a, b \in 1..Len(all_data) :
          /\ DOMAIN all_data[a] # DOMAIN all_data[b]
          /\ DOMAIN normalized_data[a] = DOMAIN normalized_data[b]
          /\ \E key \in DOMAIN all_data[a] : all_data[a][key] # ""

\* C10: a row of fewer than 4 cells yields no Record and registers no key, and
\* the extraction goes on with the next row of the table.
C10_ShortRowSkipped ==
    [][(pc = "rows" /\ row_idx < Len(TableRows(table)) /\ Len(NextRow.cells) < 4) =>
          /\ data_rows' = data_rows
          /\ all_data' = all_data
          /\ all_columns_found' = all_columns_found
          /\ pc' = "rows"
          /\ table' = table
          /\ row_idx' = row_idx + 1]_vars

\* a row was extracted after a row of 3 cells of the same table was skipped
C10_Witness ==
    /\ pc = "rows"
    /\ row_idx >= 2
    /\ \E k \in 1..(row_idx - 1) : Len(TableRows(table)[k].cells) = 3
    /\ Len(LastRow.cells) >= 4
    /\ data_rows # <<>>
    /\ data_rows[Len(data_rows)]["Date"] = _clean_text(LastRow.cells[1].text)
    /\ Len(data_rows) < row_idx

-----------------------------------------------------------------------------
(* Claims about _store_cell_data (SpecStore) *)

\* the key of a role ("title", "url") with a 1-based ordinal
C5_Key(prefix, role, ordinal) ==
    IF ordinal = 1 THEN prefix \o "_" \o role
    ELSE prefix \o "_" \o role \o "_" \o ToString(ordinal)

\* C5: a group of n pairs writes the two base keys (empty when n = 0, holding
\* pair 0 otherwise) and for each further pair the keys numbered from 2, and no
\* other key: 2 * max(n, 1) keys, a title key exactly where there is a url key.
C5_StoreGroup ==
    (pc = "stored" /\ Len(arg.titles) = Len(arg.urls)) =>
        LET n == Len(arg.titles)
            written == DOMAIN ret \ DOMAIN arg.result
        IN  /\ \A key \in DOMAIN arg.result : ret[key] = arg.result[key]
            /\ written = {C5_Key(arg.prefix, role, ordinal) :
                             role \in {"title", "url"},
                             ordinal \in 1..(IF n = 0 THEN 1 ELSE n)}
            /\ Cardinality(written) = 2 * (IF n = 0 THEN 1 ELSE n)
            /\ n = 0 => /\ ret[arg.prefix \o "_title"] = ""
                        /\ ret[arg.prefix \o "_url"] = ""
            /\ \A ordinal \in 1..n :
                  /\ ret[C5_Key(arg.prefix, "title", ordinal)] = arg.titles[ordinal]
                  /\ ret[C5_Key(arg.prefix, "url", ordinal)] = arg.urls[ordinal]

\* a group of three pairs, all different, was stored
C5_Witness ==
    /\ pc = "stored"
    /\ Len(arg.titles) = 3 /\ Len(arg.urls) = 3
    /\ arg.titles[1] # arg.titles[2] /\ arg.titles[2] # arg.titles[3]
    /\ (arg.prefix \o "_url_3") \in DOMAIN ret

-----------------------------------------------------------------------------
(* Claims about _generate_dynamic_headers (SpecHeaders) *)

\* the group of a key, in the order of the groups in the header list
C6_Group(key) ==
    IF startswith(key, "ASIC_Gazette") THEN 1
    ELSE IF startswith(key, "Business_Gazette") THEN 2
    ELSE IF startswith(key, "Other") /\ ~startswith(key, "Other_Notes") THEN 3
    ELSE IF startswith(key, "Notes") THEN 4
    ELSE IF startswith(key, "Other_Notes") THEN 5
    ELSE 6

\* C6: the headers are Year, Date, then the registered keys (other than these
\* two) group by group, each group in string order.  This fixes the list as a
\* function of the set of registered keys: neither the order of registration nor
\* the order in which the set yields its elements shows in it.
C6_HeaderOrder ==
    pc = "derived" =>
        /\ Len(headers) = 2 + Cardinality(all_columns_found \ {"Year", "Date"})
        /\ headers[1] = "Year"
        /\ headers[2] = "Date"
        /\ {headers[k] : k \in 3..Len(headers)} = all_columns_found \ {"Year", "Date"}
        /\ \A a, b \in 3..Len(headers) :
              a < b => \/ C6_Group(headers[a]) < C6_Group(headers[b])
                       \/ /\ C6_Group(headers[a]) = C6_Group(headers[b])
                          /\ StrLess(headers[a], headers[b])

\* headers were derived from keys of the Other group, the Other_Notes group and
\* two keys of no known prefix
C6_Witness ==
    /\ pc = "derived"
    /\ {"Other_title", "Other_Notes_title", "Zebra", "Misc_url"} \subseteq all_columns_found

\* C7: the headers hold no string twice and hold every registered key.
C7_NoDuplicateSuperset ==
    pc = "derived" =>
        /\ \A a, b \in 1..Len(headers) : a # b => headers[a] # headers[b]
        /\ all_columns_found \subseteq Range(headers)

\* headers were derived from a set with Date, without Year, with a key of no
\* known prefix
C7_Witness ==
    /\ pc = "derived"
    /\ "Date" \in all_columns_found
    /\ "Year" \notin all_columns_found
    /\ "Zebra" \in all_columns_found
    /\ "Other" \in all_columns_found

-----------------------------------------------------------------------------
(* Claims about _normalize_row_data (SpecNormalize) *)

\* C8: the normalized record has exactly the headers as keys, the record's value
\* where it has the header and "" elsewhere; the record is not modified; and
\* normalizing the result again returns it unchanged.
C8_Normalize ==
    /\ pc \in {"once", "twice"} =>
          /\ arg.row_data = arg.original
          /\ DOMAIN ret[1] = Range(arg.headers)
          /\ \A h \in Range(arg.headers) :
                ret[1][h] = IF h \in DOMAIN arg.original THEN arg.original[h] ELSE ""
    /\ pc = "twice" => ret[2] = ret[1]

\* a record with a key that is no header was normalized twice against headers
\* with a repeated header and a header the record lacks
C8_Witness ==
    /\ pc = "twice"
    /\ "Extra" \in DOMAIN arg.original
    /\ "Year" \in DOMAIN arg.original /\ arg.original["Year"] # ""
    /\ Len(arg.headers) = 3
    /\ arg.headers[1] = arg.headers[3]
    /\ \E h \in Range(arg.headers) : h \notin DOMAIN arg.original
    /\ "Year" \in Range(arg.headers)
-----------------------------------------------------------------------------
(* C11: a section whose table is not found                                   *)

\* the resolution of section k of the session
C11_Resolved(k) == _find_correct_table_for_year(page, YearOf(sections[k]))

\* a step that attempts a section: it is section i + 1, resolved on the page; when
\* no table is found nothing is appended or registered and the next section is up
C11_Attempt ==
    (pc = "section" /\ pc' # "save") =>
        /\ i < Len(sections)
        /\ year' = YearOf(sections[i + 1])
        /\ table' = C11_Resolved(i + 1)
        /\ C11_Resolved(i + 1) = None =>
              /\ all_data' = all_data
              /\ all_columns_found' = all_columns_found
              /\ pc' = "section"
              /\ i' = i + 1
        /\ (C11_Resolved(i + 1) # None /\ ~C11_Resolved(i + 1).stale) =>
              /\ pc' = "rows" /\ i' = i /\ row_idx' = 0 /\ data_rows' = <<>>

\* the sections are passed one at a time, in order: a section is left only by the
\* attempt that found nothing to read or after the last row of its table
C11_InOrder ==
    /\ i' \in {i, i + 1}
    /\ (pc = "rows" /\ i' = i + 1) =>
          /\ row_idx = Len(TableRows(table))
          /\ pc' = "section"
    /\ pc = "rows" =>
          /\ i < Len(sections)
          /\ year = YearOf(sections[i + 1])
          /\ table = C11_Resolved(i + 1)
          /\ row_idx' \in {row_idx, row_idx + 1}
    /\ pc' = "save" => i = Len(sections)

\* C11: a section for which no table is found appends no record and registers no
\* key, the sections after it are still resolved and extracted, each section is
\* attempted once and in order, and the session reaches its end
C11_NotFoundSkipped ==
    /\ [][C11_Attempt /\ C11_InOrder]_vars
    /\ <>(pc = "done" /\ i = Len(sections))

\* a session that ended with records, after a first section without a table
C11_Witness ==
    /\ pc = "done"
    /\ Len(sections) = 2
    /\ C11_Resolved(1) = None
    /\ C11_Resolved(2) # None
    /\ all_data # <<>>

-----------------------------------------------------------------------------
(* C12: the registry only grows, the output is append-only and ordered       *)

\* q is a prefix of r
C12_Prefix(q, r) == Len(q) <= Len(r) /\ SubSeq(r, 1, Len(q)) = q

\* the records of the first n rows of table t read for year y, in row order
C12_RowRecords(t, y, n) ==
    LET rec(k) == _extract_row_data(TableRows(t)[k], y, {})
        kept == SelectSeq([k \in 1..n |-> k], LAMBDA k : rec(k).ok)
    IN  [k \in 1..Len(kept) |-> rec(kept[k]).result]

\* the records of section k: none without a table or with a table that cannot be read
C12_SectionRecords(k) ==
    LET y == YearOf(sections[k])
        t == _find_correct_table_for_year(page, y)
    IN  IF t = None \/ t.stale THEN <<>>
        ELSE C12_RowRecords(t, y, Len(TableRows(t)))

\* the records of the first n sections, in section order
RECURSIVE C12_Records(_)
C12_Records(n) == IF n = 0 THEN <<>> ELSE C12_Records(n - 1) \o C12_SectionRecords(n)

\* the output holds the records of the sections done so far, in the order of the
\* sections and of the rows, and the rows read so far of the current table follow
C12_Ordered ==
    /\ pc \in {"section", "done"} => all_data = C12_Records(i)
    /\ pc = "rows" => data_rows = C12_RowRecords(table, year, row_idx)
    /\ pc = "done" /\ all_data # <<>> =>
          /\ Len(normalized_data) = Len(all_data)
          /\ \A k \in 1..Len(all_data) :
                \A key \in DOMAIN all_data[k] : normalized_data[k][key] = all_data[k][key]

\* a step removes no key and leaves the earlier output as a prefix
C12_Grows ==
    /\ all_columns_found \subseteq all_columns_found'
    /\ C12_Prefix(all_data, all_data')
    /\ pc = "rows" /\ pc' = "rows" => C12_Prefix(data_rows, data_rows')

\* C12: across every step of a session the registry only grows and the output is
\* append-only; the records appear in the order the sections are processed and,
\* within a section, in the row order of its table
C12_AppendOnly == []C12_Ordered /\ [][C12_Grows]_vars

\* a session that ended with the records of two sections
C12_Witness ==
    /\ pc = "done"
    /\ Len(sections) = 2
    /\ C12_SectionRecords(1) # <<>>
    /\ C12_SectionRecords(2) # <<>>
    /\ Len(all_data) >= 3

-----------------------------------------------------------------------------
(* C13: the registry and the keys of the records                             *)

\* the keys of the records of the output
C13_RecordKeys == UNION {DOMAIN all_data[k] : k \in 1..Len(all_data)}

\* C13: at the end of a session that produced records, the registry is exactly the
\* union of the key sets of the records: a row that fails partway registers no key
C13_RegistryIsRecordKeys ==
    (pc = "done" /\ all_data # <<>>) => all_columns_found = C13_RecordKeys

-----------------------------------------------------------------------------
(* C14: the base pair of a group (SpecStore)                                 *)

=============================================================================
